---- MODULE Spec2Model ----
(***************************************************************************)
(* visisort: the Synchronizer (src/visisort/synchronizer.py), the          *)
(* SynchronizedRenderer protocol (src/visisort/renderer.py) and the        *)
(* runner threads wired by main() (src/visisort/main.py).                  *)
(*                                                                         *)
(* Granularity.  Every thread is a Python thread.  One step of a thread    *)
(* is a maximal run of statements that ends where another thread can       *)
(* observe or interfere: a lock acquisition is a step of its own (it       *)
(* blocks), and the statements executed while the lock is held form one    *)
(* step up to the release, the Condition.wait (which releases) or the      *)
(* call of the overridable hook Synchronizer.synchronized.                 *)
(*                                                                         *)
(* A participant (synchronizee) is identified with the thread that uses    *)
(* it: every renderer of the program is driven by exactly one thread.      *)
(* Condition.wait is CPython's: a waiter returns only after a notify.      *)
(***************************************************************************)
EXTENDS Integers, FiniteSets, Sequences, TLC

VARIABLES
    synchronizees,  \* Synchronizer.synchronizees: the registered participants
    in_sync,        \* Synchronizer.in_sync: participants not yet synced this round
    lock,           \* holder of Synchronizer.lock, or NoThread
    pc,             \* per thread: its position inside a Synchronizer method
    calls,          \* history: per thread, number of sync calls entered
    hooks,          \* history: number of invocations of Synchronizer.synchronized
    rounds,         \* history: number of rounds closed (in_sync reset, notifyAll)
    late,           \* history: participants added while the current round was in flight
    phase,          \* per thread: position of the client code that uses the Synchronizer
    accesses,       \* per runner: number of array accesses performed by its sort
    startup_lock,   \* holder of startup_cond's lock, or NoThread
    mainpc,         \* position of main() around the start gate
    algorithm,      \* the sort that is run: a class of sorters.py or a function of main.py
    given,          \* the list handed to that sort
    kwargs,         \* the lo and hi handed to sort() of a class of sorters.py
    outcome,        \* the run of that sort: its own array, steps and status
    heap,           \* the list objects: list identity -> contents
    ary,            \* per run: the identity of the list its array object holds (.ary, .array)
    readcount,      \* per run: SortableArray.readcount
    writecount,     \* per run: SortableArray.writecount
    gets,           \* history: per run, number of element gets that returned a value
    sets,           \* history: per run, number of element sets that stored a value
    last            \* history: the latest call on an array object and how it ended

syncVars == <<synchronizees, in_sync, lock, pc, calls, hooks, rounds, late>>
sortVars == <<algorithm, given, kwargs, outcome>>
arrayVars == <<heap, ary, readcount, writecount, gets, sets, last>>
clientVars == <<phase, accesses, startup_lock, mainpc, sortVars, arrayVars>>
vars == <<synchronizees, in_sync, lock, pc, calls, hooks, rounds, late,
          phase, accesses, startup_lock, mainpc,
          algorithm, given, kwargs, outcome,
          heap, ary, readcount, writecount, gets, sets, last>>

\* The threads of the model (main() starts six; three exhibit every interleaving
\* pattern of the claims: two blocked peers and one that joins, leaves or closes).
Threads == {"A", "B", "C"}
NoThread == "none"

\* Bound on the number of sync calls one thread makes in Spec, BarrierSpec, FairProtocolSpec.
MaxCalls == 2
\* Bound on the number of array accesses of one run in MainSpec and ArraySpec.
MaxAccesses == 2
\* Bound on the number of steps of one run of a sort; every run that ends takes fewer.
MaxOps == 64
\* Bounds on the lists handed to the sorts in SortSpec: their length and their values.
MaxLen == 3
MaxValue == 2
\* Bound on the length of the shared initial list in ArraySpec.
MaxArrayLen == 2

\* The identity of the shared initial list (random_list of main()) and of no list.
InitialList == 0
NoList == -1
\* Python's None, where a list index or a value is expected.
None == -1

\* No sort has been set up.
SortIdle ==
    /\ algorithm = "none"
    /\ given = <<>>
    /\ kwargs = [lo |-> 0, hi |-> -1]
    /\ outcome = [array |-> <<>>, ops |-> <<>>, status |-> "created", fuel |-> MaxOps]

\* No array object has been constructed; the initial list is empty.
ArrayIdle ==
    /\ heap = [l \in {InitialList} |-> <<>>]
    /\ ary = [t \in Threads |-> NoList]
    /\ readcount = [t \in Threads |-> 0]
    /\ writecount = [t \in Threads |-> 0]
    /\ gets = [t \in Threads |-> 0]
    /\ sets = [t \in Threads |-> 0]
    /\ last = [run |-> NoThread, call |-> "none", key |-> 0, result |-> "none", value |-> None]

(***************************************************************************)
(* Synchronizer                                                            *)
(***************************************************************************)

\* Synchronizer.__init__
SynchronizerInit ==
    /\ synchronizees = {}
    /\ in_sync = {}
    /\ lock = NoThread
    /\ pc = [t \in Threads |-> "idle"]
    /\ calls = [t \in Threads |-> 0]
    /\ hooks = 0
    /\ rounds = 0
    /\ late = {}

\* A round is in flight: a registered participant has synced and is blocked in wait().
InFlight == \E u \in Threads : pc[u] = "waiting" /\ u \in synchronizees

\* Mutant of add_acquire: add goes on without taking the lock.
add_without_lock(t) ==
    /\ pc[t] = "idle"
    /\ pc' = [pc EXCEPT ![t] = "add_cs"]
    /\ UNCHANGED <<synchronizees, in_sync, lock, calls, hooks, rounds, late>>

\* self.lock.acquire() of add
add_acquire(t) ==
    /\ pc[t] = "idle"
    /\ lock = NoThread
    /\ lock' = t
    /\ pc' = [pc EXCEPT ![t] = "add_cs"]
    /\ UNCHANGED <<synchronizees, in_sync, calls, hooks, rounds, late>>

\* Mutant of add: the joiner is registered but not made pending.
add_not_pending(t) ==
    /\ pc[t] = "add_cs"
    /\ lock = t
    /\ synchronizees' = synchronizees \cup {t}
    /\ late' = IF InFlight /\ t \notin synchronizees THEN late \cup {t} ELSE late
    /\ lock' = NoThread
    /\ pc' = [pc EXCEPT ![t] = "idle"]
    /\ UNCHANGED <<in_sync, calls, hooks, rounds>>
    /\ UNCHANGED clientVars

\* add: synchronizees.add; in_sync.add; lock.release()
add(t) ==
    /\ pc[t] = "add_cs"
    /\ lock = t
    /\ synchronizees' = synchronizees \cup {t}
    /\ in_sync' = in_sync \cup {t}
    /\ late' = IF InFlight /\ t \notin synchronizees THEN late \cup {t} ELSE late
    /\ lock' = NoThread
    /\ pc' = [pc EXCEPT ![t] = "idle"]
    /\ UNCHANGED <<calls, hooks, rounds>>
    /\ UNCHANGED clientVars

\* self.lock.acquire() of done
done_acquire(t) ==
    /\ pc[t] = "idle"
    /\ lock = NoThread
    /\ lock' = t
    /\ pc' = [pc EXCEPT ![t] = "done_cs"]
    /\ UNCHANGED <<synchronizees, in_sync, calls, hooks, rounds, late>>

\* Mutant of done: the participant is discarded from synchronizees only.
done_keeps_pending(t) ==
    /\ pc[t] = "done_cs"
    /\ lock = t
    /\ synchronizees' = synchronizees \ {t}
    /\ lock' = NoThread
    /\ pc' = [pc EXCEPT ![t] = "idle"]
    /\ UNCHANGED <<in_sync, late, calls, hooks, rounds>>
    /\ UNCHANGED clientVars

\* done: synchronizees.discard; in_sync.discard; lock.release().
\* Nothing else: no closing check, no notify.
done(t) ==
    /\ pc[t] = "done_cs"
    /\ lock = t
    /\ synchronizees' = synchronizees \ {t}
    /\ in_sync' = in_sync \ {t}
    /\ late' = late \ {t}
    /\ lock' = NoThread
    /\ pc' = [pc EXCEPT ![t] = "idle"]
    /\ UNCHANGED <<calls, hooks, rounds>>
    /\ UNCHANGED clientVars

\* Mutant of RoundComplete: the closing test is off by one.
RoundCompleteOffByOne(s) == Cardinality(s) <= 1

\* len(self.in_sync) == 0
RoundComplete(s) == Cardinality(s) = 0

\* self.condition.acquire() of sync
sync_acquire(t) ==
    /\ pc[t] = "idle"
    /\ lock = NoThread
    /\ lock' = t
    /\ pc' = [pc EXCEPT ![t] = "sync_cs"]
    /\ calls' = [calls EXCEPT ![t] = @ + 1]
    /\ UNCHANGED <<synchronizees, in_sync, hooks, rounds, late>>

\* Mutant of sync_discard: the test is made before the caller is discarded.
sync_test_before_discard(t) ==
    /\ pc[t] = "sync_cs"
    /\ lock = t
    /\ in_sync' = in_sync \ {t}
    /\ IF RoundComplete(in_sync)
         THEN /\ pc' = [pc EXCEPT ![t] = "sync_hook"]
              /\ lock' = lock
         ELSE /\ pc' = [pc EXCEPT ![t] = "waiting"]
              /\ lock' = NoThread
    /\ UNCHANGED <<synchronizees, calls, hooks, rounds, late>>
    /\ UNCHANGED clientVars

\* Mutant of sync_discard: a caller that does not close the round returns at
\* once instead of waiting.
sync_discard_no_wait(t) ==
    /\ pc[t] = "sync_cs"
    /\ lock = t
    /\ in_sync' = in_sync \ {t}
    /\ IF RoundComplete(in_sync \ {t})
         THEN /\ pc' = [pc EXCEPT ![t] = "sync_hook"]
              /\ lock' = lock
         ELSE /\ pc' = [pc EXCEPT ![t] = "idle"]
              /\ lock' = NoThread
    /\ UNCHANGED <<synchronizees, calls, hooks, rounds, late>>
    /\ UNCHANGED clientVars

\* sync: in_sync.discard; the test; on the else branch condition.wait(), which
\* releases the lock and blocks until a notify.
sync_discard(t) ==
    /\ pc[t] = "sync_cs"
    /\ lock = t
    /\ in_sync' = in_sync \ {t}
    /\ IF RoundComplete(in_sync \ {t})
         THEN /\ pc' = [pc EXCEPT ![t] = "sync_hook"]
              /\ lock' = lock
         ELSE /\ pc' = [pc EXCEPT ![t] = "waiting"]
              /\ lock' = NoThread
    /\ UNCHANGED <<synchronizees, calls, hooks, rounds, late>>
    /\ UNCHANGED clientVars

\* Mutant of synchronized: the closing branch goes on without calling the hook.
synchronized_skipped(t) ==
    /\ pc[t] = "sync_hook"
    /\ lock = t
    /\ pc' = [pc EXCEPT ![t] = "sync_close"]
    /\ UNCHANGED <<synchronizees, in_sync, lock, calls, hooks, rounds, late>>
    /\ UNCHANGED clientVars

\* sync: self.synchronized(), the round-complete hook (ImageUpdateSynchronizer
\* overrides it with a wx.CallAfter, which only queues an event)
synchronized(t) ==
    /\ pc[t] = "sync_hook"
    /\ lock = t
    /\ hooks' = hooks + 1
    /\ pc' = [pc EXCEPT ![t] = "sync_close"]
    /\ UNCHANGED <<synchronizees, in_sync, lock, calls, rounds, late>>
    /\ UNCHANGED clientVars

\* Mutant of sync_close: the closing participant leaves itself out of the reset.
sync_close_without_self(t) ==
    /\ pc[t] = "sync_close"
    /\ lock = t
    /\ in_sync' = (in_sync \cup synchronizees) \ {t}
    /\ pc' = [u \in Threads |->
                IF u = t THEN "idle"
                ELSE IF pc[u] = "waiting" THEN "woken" ELSE pc[u]]
    /\ lock' = NoThread
    /\ rounds' = rounds + 1
    /\ late' = {}
    /\ UNCHANGED <<synchronizees, calls, hooks>>
    /\ UNCHANGED clientVars

\* sync: in_sync.update(synchronizees); condition.notifyAll(); finally: release()
sync_close(t) ==
    /\ pc[t] = "sync_close"
    /\ lock = t
    /\ in_sync' = in_sync \cup synchronizees
    /\ pc' = [u \in Threads |->
                IF u = t THEN "idle"
                ELSE IF pc[u] = "waiting" THEN "woken" ELSE pc[u]]
    /\ lock' = NoThread
    /\ rounds' = rounds + 1
    /\ late' = {}
    /\ UNCHANGED <<synchronizees, calls, hooks>>
    /\ UNCHANGED clientVars

\* sync: a notified waiter reacquires the lock inside condition.wait()
sync_wake(t) ==
    /\ pc[t] = "woken"
    /\ lock = NoThread
    /\ lock' = t
    /\ pc' = [pc EXCEPT ![t] = "sync_exit"]
    /\ UNCHANGED <<synchronizees, in_sync, calls, hooks, rounds, late>>
    /\ UNCHANGED clientVars

\* sync: finally: self.condition.release() of a former waiter
sync_release(t) ==
    /\ pc[t] = "sync_exit"
    /\ lock = t
    /\ lock' = NoThread
    /\ pc' = [pc EXCEPT ![t] = "idle"]
    /\ UNCHANGED <<synchronizees, in_sync, calls, hooks, rounds, late>>
    /\ UNCHANGED clientVars

\* The steps a thread takes inside a Synchronizer method once it holds (or has
\* held) the lock; the methods' entries are taken by the client code.
SynchronizerStep(t) ==
    \/ add(t)
    \/ done(t)
    \/ sync_discard(t)
    \/ synchronized(t)
    \/ sync_close(t)
    \/ sync_wake(t)
    \/ sync_release(t)

\* Thread t is inside sync (entered, not yet returned).
InSync(t) == pc[t] \in {"sync_cs", "sync_hook", "sync_close", "waiting", "woken", "sync_exit"}

\* Number of sync calls of t that have returned.
Returned(t) == IF InSync(t) THEN calls[t] - 1 ELSE calls[t]

(***************************************************************************)
(* Spec: the Synchronizer under arbitrary callers.  Every thread may call  *)
(* add, done and sync for its participant at any time and in any order.    *)
(***************************************************************************)

ClientIdle ==
    /\ phase = [t \in Threads |-> "free"]
    /\ accesses = [t \in Threads |-> 0]
    /\ startup_lock = NoThread
    /\ mainpc = "none"
    /\ SortIdle
    /\ ArrayIdle

Init == SynchronizerInit /\ ClientIdle

FreeAdd(t) == add_acquire(t) /\ UNCHANGED clientVars
FreeDone(t) == done_acquire(t) /\ UNCHANGED clientVars
FreeSync(t) == calls[t] < MaxCalls /\ sync_acquire(t) /\ UNCHANGED clientVars

Next ==
    \E t \in Threads :
        \/ FreeAdd(t)
        \/ FreeDone(t)
        \/ FreeSync(t)
        \/ SynchronizerStep(t)

Spec == Init /\ [][Next]_vars

(***************************************************************************)
(* Claims about the Synchronizer under arbitrary callers (Spec)            *)
(***************************************************************************)

\* C2 (as claimed): when a participant c that has not synced in the current round
\* completes done while every other registered participant is blocked in sync,
\* the round closes in that call: the hook fires, in_sync is reset to
\* synchronizees and no registered participant stays blocked.
C2_LeaveClosesRound ==
    [][\A c \in Threads :
         ( /\ pc[c] = "done_cs" /\ pc'[c] = "idle"
           /\ c \in in_sync
           /\ synchronizees \ {c} # {}
           /\ \A u \in synchronizees \ {c} : pc[u] = "waiting" )
         => ( /\ hooks' = hooks + 1
              /\ rounds' = rounds + 1
              /\ in_sync' = synchronizees'
              /\ \A u \in synchronizees' : pc'[u] # "waiting" )]_vars

\* C2's scenario after C.done(): A and B are the participants, both still blocked
\* in wait(), nothing is pending, the lock is free and C is back in its caller.
C2_Scenario ==
    /\ synchronizees = {"A", "B"}
    /\ pc["A"] = "waiting" /\ pc["B"] = "waiting"
    /\ in_sync = {}
    /\ pc["C"] = "idle"
    /\ lock = NoThread

\* C7: in every reachable state in_sync (pending) is a subset of synchronizees
\* (participants).
C7_PendingSubset == in_sync \subseteq synchronizees

\* C7's case: after a closed round and further calls, a participant has synced
\* and is blocked while another one is still pending.
C7_Witness ==
    /\ rounds >= 1
    /\ in_sync # {}
    /\ in_sync # synchronizees
    /\ \E u \in synchronizees : pc[u] = "waiting"

\* C8: whenever a round closes, in the state in which the closing sync releases
\* the lock in_sync equals synchronizees.
C8_ResetOnClose ==
    [][rounds' = rounds + 1 => (in_sync' = synchronizees' /\ lock' = NoThread)]_vars

\* C8's case: a round of two or more participants has just closed: in_sync has
\* been reset, the lock is free and a released waiter has not yet left wait().
C8_Witness ==
    /\ rounds >= 1
    /\ lock = NoThread
    /\ Cardinality(synchronizees) >= 2
    /\ in_sync = synchronizees
    /\ \E u \in synchronizees : pc[u] = "woken"

\* C9: the hook is invoked exactly once per closed round (hooks counts one more
\* than rounds exactly while a thread is between the hook and the reset), by the
\* thread whose discard emptied in_sync, which holds the lock, and a blocked
\* caller is released only by a step taken after the hook of that round fired.
C9_HookOncePerRound ==
    /\ [](/\ hooks = rounds + Cardinality({t \in Threads : pc[t] = "sync_close"})
          /\ \A t \in Threads :
                pc[t] \in {"sync_hook", "sync_close"} => (lock = t /\ in_sync = {}))
    /\ [][/\ hooks' # hooks =>
                \E t \in Threads : /\ pc[t] = "sync_hook" /\ lock = t /\ lock' = t
                                   /\ in_sync = {}
                                   /\ hooks' = hooks + 1
                                   /\ \A u \in Threads : pc[u] = "waiting" => pc'[u] = "waiting"
          /\ \A u \in Threads :
                (pc[u] = "waiting" /\ pc'[u] # "waiting")
                    => (hooks = rounds + 1 /\ hooks' = rounds' /\ pc'[u] = "woken")]_vars

\* C9's scenario: A and B are the participants, each has made one sync call and
\* has returned from it, one round has closed and the hook has fired once.
C9_Scenario ==
    /\ synchronizees = {"A", "B"}
    /\ calls["A"] = 1 /\ calls["B"] = 1
    /\ pc["A"] = "idle" /\ pc["B"] = "idle"
    /\ rounds = 1
    /\ hooks = 1

\* C10 (as claimed): the in-flight round does not wait for a late joiner: a sync
\* after which only late joiners are pending closes the round.
C10_RoundIgnoresLateJoiner ==
    [][\A t \in Threads :
         ( /\ pc[t] = "sync_cs" /\ pc'[t] # "sync_cs"
           /\ t \in synchronizees
           /\ (in_sync \ {t}) \subseteq late )
         => pc'[t] = "sync_hook"]_vars

\* C10 (amended): add makes the joiner pending at once, also in a round in flight,
\* and a sync closes the round only when no participant, late joiners included,
\* is pending any more.
C10_RoundAwaitsLateJoiner ==
    [][/\ \A t \in Threads :
            (pc[t] = "add_cs" /\ pc'[t] = "idle")
                => (t \in in_sync' /\ t \in synchronizees')
       /\ \A t \in Threads :
            (pc[t] = "sync_cs" /\ pc'[t] = "sync_hook")
                => late \cap in_sync' = {}
       /\ \A t \in Threads :
            (pc[t] = "sync_cs" /\ (in_sync \ {t}) \cap late # {})
                => pc'[t] \in {"sync_cs", "waiting"}]_vars

\* C10's case: A synced and blocked, C joined the round in flight, then B synced
\* and is blocked too: the round waits for C alone.
C10_Witness ==
    /\ synchronizees = {"A", "B", "C"}
    /\ pc["A"] = "waiting" /\ pc["B"] = "waiting"
    /\ late = {"C"}
    /\ in_sync = {"C"}

\* C11: the empty-set edge.  An add(p) made while synchronizees and in_sync are
\* both empty leaves both equal to {p}; and whenever p is the only participant,
\* sync(p) does not block: its step under the lock takes the closing branch,
\* the hook is invoked, and the closing step resets in_sync to {p}, counts one
\* more round and returns (the lock is held from the test to the return, so
\* nothing can come between).
C11_SoleJoinerClosesRound ==
    [][\A t \in Threads :
         /\ (pc[t] = "add_cs" /\ pc'[t] = "idle" /\ synchronizees = {} /\ in_sync = {})
               => (synchronizees' = {t} /\ in_sync' = {t})
         /\ (pc[t] = "sync_cs" /\ pc'[t] # "sync_cs" /\ synchronizees = {t})
               => (pc'[t] = "sync_hook" /\ lock' = t)
         /\ (pc[t] = "sync_hook" /\ pc'[t] # "sync_hook" /\ synchronizees = {t})
               => (pc'[t] = "sync_close" /\ hooks' = hooks + 1 /\ lock' = t)
         /\ (pc[t] = "sync_close" /\ pc'[t] # "sync_close" /\ synchronizees = {t})
               => (pc'[t] = "idle" /\ in_sync' = {t} /\ rounds' = rounds + 1)
      ]_vars

\* C11's case: A was a participant, closed the first round and has left; C is
\* the only participant and its single sync call has closed the second round
\* and returned, with in_sync reset to {C}.
C11_Witness ==
    /\ synchronizees = {"C"}
    /\ in_sync = {"C"}
    /\ rounds = 2 /\ hooks = 2
    /\ calls = [t \in Threads |-> IF t = "B" THEN 0 ELSE 1]
    /\ \A t \in Threads : pc[t] = "idle"

\* C12: a sync or a done called by a thread that is not in synchronizees ends
\* in an error: the sync does not go on to close a round and does not block
\* in condition.wait, the done does not return normally, and neither changes
\* synchronizees or in_sync.
C12_MisuseRejected ==
    [][\A t \in Threads :
         (t \notin synchronizees /\ pc'[t] # pc[t]) =>
            /\ pc[t] = "sync_cs" => pc'[t] \notin {"sync_hook", "waiting"}
            /\ pc[t] = "done_cs" => pc'[t] # "idle"
            /\ pc[t] \in {"sync_cs", "done_cs"} =>
                  (synchronizees' = synchronizees /\ in_sync' = in_sync)
      ]_vars

\* C12's case: C never joined; its sync call found in_sync empty, closed a
\* round and returned normally.
C12_Scenario ==
    /\ synchronizees = {}
    /\ calls["C"] = 1 /\ calls["A"] = 0 /\ calls["B"] = 0
    /\ rounds = 1 /\ hooks = 1
    /\ pc["C"] = "idle"

\* The positions of a thread inside add, done and sync between the acquire and
\* the release of the lock, the wait excepted.
InCriticalSection(t) ==
    pc[t] \in {"add_cs", "done_cs", "sync_cs", "sync_hook", "sync_close", "sync_exit"}

\* C23: lock discipline.  A thread that is inside the statements of add, done
\* or sync that read or change synchronizees and in_sync or test the closing
\* condition holds the lock, so no two threads are there at once; a thread
\* blocked in the wait of sync does not hold it; and every step that changes
\* one of the two sets is a step of the lock holder.
C23_LockDiscipline ==
    /\ [](\A t \in Threads :
             /\ InCriticalSection(t) => lock = t
             /\ pc[t] \in {"waiting", "woken"} => lock # t
             /\ \A u \in Threads \ {t} : ~(InCriticalSection(t) /\ InCriticalSection(u)))
    /\ [][(synchronizees' # synchronizees \/ in_sync' # in_sync) =>
             \E t \in Threads : lock = t /\ InCriticalSection(t) /\ pc'[t] # pc[t]
        ]_vars

\* C23's case: A is blocked in the wait of sync without the lock, B is inside
\* sync holding it, and C is about to call.
C23_Witness ==
    /\ pc["A"] = "waiting"
    /\ pc["B"] = "sync_cs" /\ lock = "B"
    /\ pc["C"] = "idle"
    /\ synchronizees = Threads

(***************************************************************************)
(* BarrierSpec: a fixed set of N >= 1 participants.  The members are       *)
(* chosen initially; each is added once, and the sync calls start when     *)
(* every member has been added.  There is no add or done afterwards.       *)
(***************************************************************************)

Members == {t \in Threads : phase[t] # "outsider"}

BarrierInit ==
    /\ SynchronizerInit
    /\ phase \in [Threads -> {"member", "outsider"}]
    /\ Members # {}
    /\ accesses = [t \in Threads |-> 0]
    /\ startup_lock = NoThread
    /\ mainpc = "none"
    /\ SortIdle
    /\ ArrayIdle

\* SynchronizedRenderer.__init__: self.synchronizer.add(self)
BarrierJoin(t) ==
    /\ phase[t] = "member"
    /\ add_acquire(t)
    /\ phase' = [phase EXCEPT ![t] = "joined"]
    /\ UNCHANGED <<accesses, startup_lock, mainpc, sortVars, arrayVars>>

\* SynchronizedRenderer.update: self.synchronizer.sync(self)
BarrierSync(t) ==
    /\ phase[t] = "joined"
    /\ synchronizees = Members
    /\ calls[t] < MaxCalls
    /\ sync_acquire(t)
    /\ UNCHANGED clientVars

BarrierNext ==
    \E t \in Threads :
        \/ BarrierJoin(t)
        \/ BarrierSync(t)
        \/ add(t)
        \/ sync_discard(t)
        \/ synchronized(t)
        \/ sync_close(t)
        \/ sync_wake(t)
        \/ sync_release(t)

BarrierSpec == BarrierInit /\ [][BarrierNext]_vars

\* C1: with a fixed set of participants, all added before the first sync, no sync
\* call returns before every participant has called sync in that round: the
\* number of sync calls a participant has returned from never exceeds the number
\* of sync calls any participant has made.
C1_Barrier ==
    \A p \in Members : \A q \in Members : Returned(p) <= calls[q]

\* C1's case: three participants, and every one of them has made MaxCalls sync
\* calls and has returned from all of them.
C1_Witness ==
    /\ Members = Threads
    /\ \A t \in Threads : calls[t] = MaxCalls /\ Returned(t) = MaxCalls
    /\ rounds = MaxCalls

(***************************************************************************)
(* FairProtocolSpec: every participant follows the SynchronizedRenderer    *)
(* protocol: add at construction, any number of update() calls (one sync   *)
(* each), then update(is_final=True): a last sync followed by done.  The   *)
(* threads are scheduled fairly.                                           *)
(***************************************************************************)

ProtocolInit ==
    /\ SynchronizerInit
    /\ phase = [t \in Threads |-> "new"]
    /\ accesses = [t \in Threads |-> 0]
    /\ startup_lock = NoThread
    /\ mainpc = "none"
    /\ SortIdle
    /\ ArrayIdle

\* SynchronizedRenderer.__init__: self.synchronizer.add(self)
ProtocolJoin(t) ==
    /\ phase[t] = "new"
    /\ add_acquire(t)
    /\ phase' = [phase EXCEPT ![t] = "active"]
    /\ UNCHANGED <<accesses, startup_lock, mainpc, sortVars, arrayVars>>

\* SynchronizedRenderer.update(is_final=False): sync
ProtocolUpdate(t) ==
    /\ phase[t] = "active"
    /\ calls[t] < MaxCalls
    /\ sync_acquire(t)
    /\ UNCHANGED clientVars

\* Renderer.done -> SynchronizedRenderer.update(is_final=True): sync ...
ProtocolFinalUpdate(t) ==
    /\ phase[t] = "active"
    /\ sync_acquire(t)
    /\ phase' = [phase EXCEPT ![t] = "final"]
    /\ UNCHANGED <<accesses, startup_lock, mainpc, sortVars, arrayVars>>

\* ... SynchronizedRenderer.update(is_final=True): then done
ProtocolLeave(t) ==
    /\ phase[t] = "final"
    /\ done_acquire(t)
    /\ phase' = [phase EXCEPT ![t] = "left"]
    /\ UNCHANGED <<accesses, startup_lock, mainpc, sortVars, arrayVars>>

ProtocolThread(t) ==
    \/ ProtocolJoin(t)
    \/ ProtocolUpdate(t)
    \/ ProtocolFinalUpdate(t)
    \/ ProtocolLeave(t)
    \/ SynchronizerStep(t)

ProtocolNext == \E t \in Threads : ProtocolThread(t)

\* Python threads are preemptively scheduled: a thread whose next statement can
\* run is eventually run.
FairProtocolSpec ==
    /\ ProtocolInit
    /\ [][ProtocolNext]_vars
    /\ \A t \in Threads : WF_vars(ProtocolThread(t))

\* C3 (as claimed): under the protocol and fair scheduling every participant
\* eventually returns from each of its sync calls.
C3_EverySyncReturns ==
    \A t \in Threads : [](InSync(t) => <>(~InSync(t)))

\* C3's failing case: B made its next sync before A, released from its final
\* sync, called done: A has left, nothing is pending and B is blocked for good.
C3_StuckAfterLeave ==
    /\ phase["A"] = "left" /\ pc["A"] = "idle"
    /\ phase["B"] = "active" /\ pc["B"] = "waiting"
    /\ "A" \notin synchronizees
    /\ in_sync \cap {"A", "B"} = {}

(***************************************************************************)
(* MainSpec: the program as wired by main().  main() creates one runner    *)
(* thread per sorting method, starts them in order, then notifies the      *)
(* start gate startup_cond once.  Each runner (run_sorting_method) waits   *)
(* at the gate, builds its CallAfterRenderer (which joins the              *)
(* synchronizer) and its RenderableArray (which renders once), runs the    *)
(* sort (every array access renders, and every render syncs) and finally   *)
(* calls done() on the renderer main() gave it.  The sort is any function  *)
(* of the array: any number of accesses up to MaxAccesses, each of which   *)
(* may raise.                                                              *)
(***************************************************************************)

\* main: for method in methods: threads[method.__name__].start()
StartOrder == <<"A", "B", "C">>

MainInit ==
    /\ SynchronizerInit
    /\ phase = [t \in Threads |-> "created"]
    /\ accesses = [t \in Threads |-> 0]
    /\ startup_lock = NoThread
    /\ mainpc = "start"
    /\ SortIdle
    /\ ArrayIdle

\* main: threads[method.__name__].start(), in the order of methods
MainStart(t) ==
    /\ mainpc = "start"
    /\ phase[t] = "created"
    /\ \E i \in 1..Len(StartOrder) :
          /\ StartOrder[i] = t
          /\ \A j \in 1..(i - 1) : phase[StartOrder[j]] # "created"
    /\ phase' = [phase EXCEPT ![t] = "started"]
    /\ UNCHANGED <<accesses, startup_lock, mainpc, sortVars, arrayVars>>
    /\ UNCHANGED syncVars

\* main: time.sleep(1); startup_cond.acquire()
MainAcquire ==
    /\ mainpc = "start"
    /\ \A t \in Threads : phase[t] # "created"
    /\ startup_lock = NoThread
    /\ startup_lock' = "main"
    /\ mainpc' = "notify"
    /\ UNCHANGED <<phase, accesses, sortVars, arrayVars>>
    /\ UNCHANGED syncVars

\* main: startup_cond.notifyAll() wakes the runners that are waiting now
MainNotifyAll ==
    /\ mainpc = "notify"
    /\ phase' = [t \in Threads |->
                    IF phase[t] = "gate_waiting" THEN "gate_notified" ELSE phase[t]]
    /\ mainpc' = "release"
    /\ UNCHANGED <<accesses, startup_lock, sortVars, arrayVars>>
    /\ UNCHANGED syncVars

\* main: startup_cond.release(); app.MainLoop()
MainRelease ==
    /\ mainpc = "release"
    /\ startup_lock' = NoThread
    /\ mainpc' = "mainloop"
    /\ UNCHANGED <<phase, accesses, sortVars, arrayVars>>
    /\ UNCHANGED syncVars

\* run_sorting_method: startup_cond.acquire()
StartupAcquire(t) ==
    /\ phase[t] = "started"
    /\ startup_lock = NoThread
    /\ startup_lock' = t
    /\ phase' = [phase EXCEPT ![t] = "gate_acquired"]
    /\ UNCHANGED <<accesses, mainpc, sortVars, arrayVars>>
    /\ UNCHANGED syncVars

\* run_sorting_method: startup_cond.wait() releases the lock and blocks
StartupWait(t) ==
    /\ phase[t] = "gate_acquired"
    /\ startup_lock' = NoThread
    /\ phase' = [phase EXCEPT ![t] = "gate_waiting"]
    /\ UNCHANGED <<accesses, mainpc, sortVars, arrayVars>>
    /\ UNCHANGED syncVars

\* run_sorting_method: startup_cond.wait() reacquires the lock once notified
StartupReacquire(t) ==
    /\ phase[t] = "gate_notified"
    /\ startup_lock = NoThread
    /\ startup_lock' = t
    /\ phase' = [phase EXCEPT ![t] = "gate_passed"]
    /\ UNCHANGED <<accesses, mainpc, sortVars, arrayVars>>
    /\ UNCHANGED syncVars

\* run_sorting_method: startup_cond.release()
StartupRelease(t) ==
    /\ phase[t] = "gate_passed"
    /\ startup_lock' = NoThread
    /\ phase' = [phase EXCEPT ![t] = "released"]
    /\ UNCHANGED <<accesses, mainpc, sortVars, arrayVars>>
    /\ UNCHANGED syncVars

\* run_sorting_method: CallAfterRenderer(synchronizer=synchronizer, ...), whose
\* SynchronizedRenderer.__init__ calls synchronizer.add(self)
RunnerJoin(t) ==
    /\ phase[t] = "released"
    /\ add_acquire(t)
    /\ phase' = [phase EXCEPT ![t] = "joined"]
    /\ UNCHANGED <<accesses, startup_lock, mainpc, sortVars, arrayVars>>

\* RenderableArray.__init__: self.renderer.render(array=self.ary), and
\* Renderer.render -> CallAfterRenderer.update -> SynchronizedRenderer.update -> sync
RunnerInitialRender(t) ==
    /\ phase[t] = "joined"
    /\ sync_acquire(t)
    /\ phase' = [phase EXCEPT ![t] = "sorting"]
    /\ UNCHANGED <<accesses, startup_lock, mainpc, sortVars, arrayVars>>

\* method(renderable_array): one a[i] or a[i] = v. RenderableArray.__getitem__ /
\* __setitem__ access the list, count, and render: render -> update -> sync
RunnerAccess(t) ==
    /\ phase[t] = "sorting"
    /\ accesses[t] < MaxAccesses
    /\ sync_acquire(t)
    /\ accesses' = [accesses EXCEPT ![t] = @ + 1]
    /\ UNCHANGED <<phase, startup_lock, mainpc, sortVars, arrayVars>>

\* method(renderable_array): an access whose index is out of range raises
\* IndexError in self.ary.__getitem__ / __setitem__; nothing in the sort or in
\* run_sorting_method catches it, and the thread unwinds
RunnerRaise(t) ==
    /\ phase[t] = "sorting"
    /\ pc[t] = "idle"
    /\ phase' = [phase EXCEPT ![t] = "aborted"]
    /\ UNCHANGED <<accesses, startup_lock, mainpc, sortVars, arrayVars>>
    /\ UNCHANGED syncVars

\* method(renderable_array) returns
RunnerReturn(t) ==
    /\ phase[t] = "sorting"
    /\ pc[t] = "idle"
    /\ phase' = [phase EXCEPT ![t] = "returned"]
    /\ UNCHANGED <<accesses, startup_lock, mainpc, sortVars, arrayVars>>
    /\ UNCHANGED syncVars

\* run_sorting_method: renderer.done(). renderer is the CircleImageRenderer main()
\* built without a synchronizer, so SynchronizedRenderer.update(is_final=True)
\* finds self.synchronizer None and calls neither sync nor done; the
\* CallAfterRenderer that joined is not involved.
RunnerDone(t) ==
    /\ phase[t] = "returned"
    /\ phase' = [phase EXCEPT ![t] = "finished"]
    /\ UNCHANGED <<accesses, startup_lock, mainpc, sortVars, arrayVars>>
    /\ UNCHANGED syncVars

MainNext ==
    \/ MainAcquire
    \/ MainNotifyAll
    \/ MainRelease
    \/ \E t \in Threads :
        \/ MainStart(t)
        \/ StartupAcquire(t)
        \/ StartupWait(t)
        \/ StartupReacquire(t)
        \/ StartupRelease(t)
        \/ RunnerJoin(t)
        \/ RunnerInitialRender(t)
        \/ RunnerAccess(t)
        \/ RunnerRaise(t)
        \/ RunnerReturn(t)
        \/ RunnerDone(t)
        \/ add(t)
        \/ sync_discard(t)
        \/ synchronized(t)
        \/ sync_close(t)
        \/ sync_wake(t)
        \/ sync_release(t)

MainSpec == MainInit /\ [][MainNext]_vars

\* The runner has been released by the start gate: main's notifyAll has woken it.
Released(t) ==
    phase[t] \in {"gate_notified", "gate_passed", "released", "joined", "sorting",
                  "returned", "aborted", "finished"}

\* The run has completed and left the synchronizer.
Left(t) == phase[t] \in {"returned", "finished"} /\ t \notin synchronizees

\* C4 (as claimed): among the runners released by the start gate, no run has
\* performed its (k+1)-th array access while another run that has not completed
\* and left has not performed its k-th.
C4_Lockstep ==
    \A t \in Threads : \A u \in Threads :
        (Released(t) /\ Released(u) /\ ~Left(u)) => accesses[t] <= accesses[u] + 1

\* C5 (as claimed): once a run's sort has returned and run_sorting_method has
\* made its done call, the run's participant is no longer registered.
C5_LeavesOnCompletion ==
    \A t \in Threads : phase[t] = "finished" => t \notin synchronizees

\* C6 (as claimed): once a run has aborted on an error raised by its sort, the
\* run's participant is no longer registered.
C6_LeavesOnAbort ==
    \A t \in Threads : phase[t] = "aborted" => t \notin synchronizees

(***************************************************************************)
(* The sorting algorithms.  A sort is a function of its input list; it is  *)
(* computed here as the code computes it, loop by loop, on a record m:     *)
(*   array   the list being sorted (Python index i is position i + 1)      *)
(*   ops     the steps so far: the operations a generator of sorters.py    *)
(*           has yielded, or the counted accesses a function of main.py    *)
(*           has made on its array                                         *)
(*   status  "running", then "complete" (the generator has yielded         *)
(*           SortComplete and is exhausted), "returned" (a function of     *)
(*           main.py has returned), the name of the exception that ended   *)
(*           the run, or "diverged" (more than MaxOps steps)               *)
(*   fuel    the number of steps left before the run counts as diverged    *)
(***************************************************************************)

Start(array) == [array |-> array, ops |-> <<>>, status |-> "running", fuel |-> MaxOps]

Running(m) == m.status = "running"

\* One more step is taken.
Tick(m) == IF m.fuel = 0 THEN [m EXCEPT !.status = "diverged"]
           ELSE [m EXCEPT !.fuel = @ - 1]

\* list.__getitem__ / list.__setitem__ with an integer key: -len <= key < len
Valid(array, key) == -Len(array) <= key /\ key < Len(array)

\* The position a valid key addresses (negative keys count from the end).
Pos(array, key) == IF key < 0 THEN key + Len(array) + 1 ELSE key + 1

\* The value array[key] (0 where the access raises: the value is never used then).
At(array, key) == IF Valid(array, key) THEN array[Pos(array, key)] ELSE 0

\* x = self.array[key]; yield ReadOperation(key)
ReadStep(m, key) ==
    IF ~Running(m) THEN m
    ELSE IF ~Valid(m.array, key) THEN [m EXCEPT !.status = "IndexError"]
    ELSE Tick([m EXCEPT !.ops = Append(@, [op |-> "read", index |-> key])])

\* self.array[key] = value; yield WriteOperation(key, value, self.array)
WriteStep(m, key, value) ==
    IF ~Running(m) THEN m
    ELSE IF ~Valid(m.array, key) THEN [m EXCEPT !.status = "IndexError"]
    ELSE LET written == [m.array EXCEPT ![Pos(m.array, key)] = value]
         IN Tick([m EXCEPT !.array = written,
                           !.ops = Append(@, [op |-> "write", index |-> key,
                                              value |-> value, array |-> written])])

\* yield SortComplete(self.array), after which the generator is exhausted
Complete(m) ==
    IF ~Running(m) THEN m
    ELSE [m EXCEPT !.ops = Append(@, [op |-> "complete", array |-> m.array]),
                   !.status = "complete"]

\* Mutant of BubbleOutOfOrder: the comparison is the wrong way round.
BubbleInOrder(a1, a2) == a1 < a2

\* BubbleSortAlgorithm.sort: if a1 > a2
BubbleOutOfOrder(a1, a2) == a1 > a2

RECURSIVE BubbleInner(_, _, _)
\* BubbleSortAlgorithm.sort: while idx <= top
BubbleInner(m, idx, top) ==
    IF ~Running(m) \/ ~(idx <= top) THEN m
    ELSE LET i == idx + 1
             a1 == At(m.array, i - 1)
             m1 == ReadStep(m, i - 1)
             a2 == At(m1.array, i)
             m2 == ReadStep(m1, i)
             m3 == IF BubbleOutOfOrder(a1, a2)
                     THEN WriteStep(WriteStep(m2, i - 1, a2), i, a1)
                     ELSE m2
         IN BubbleInner(m3, i, top)

RECURSIVE BubbleOuter(_, _, _)
\* BubbleSortAlgorithm.sort: while top > lo
BubbleOuter(m, top, lo) ==
    IF ~Running(m) \/ ~(top > lo) THEN m
    ELSE BubbleOuter(BubbleInner(m, lo, top), top - 1, lo)

\* BubbleSortAlgorithm(array).sort(lo=lo, hi=hi)
BubbleSortAlgorithm(array, lo, hi) == Complete(BubbleOuter(Start(array), hi - 1, lo))

RECURSIVE ReadOptimizedStale(_, _, _, _)
\* Mutant of ReadOptimizedInner: the retained left value is not replaced when
\* the pair is in order.
ReadOptimizedStale(m, idx, top, a1) ==
    IF ~Running(m) \/ ~(idx <= top) THEN m
    ELSE LET i == idx + 1
             a2 == At(m.array, i)
             m1 == ReadStep(m, i)
         IN IF a1 > a2
              THEN ReadOptimizedStale(WriteStep(WriteStep(m1, i - 1, a2), i, a1), i, top, a1)
              ELSE ReadOptimizedStale(m1, i, top, a1)

RECURSIVE ReadOptimizedInner(_, _, _, _)
\* ReadOptimizedBubbleSortAlgorithm.sort: while idx <= top
ReadOptimizedInner(m, idx, top, a1) ==
    IF ~Running(m) \/ ~(idx <= top) THEN m
    ELSE LET i == idx + 1
             a2 == At(m.array, i)
             m1 == ReadStep(m, i)
         IN IF a1 > a2
              THEN ReadOptimizedInner(WriteStep(WriteStep(m1, i - 1, a2), i, a1), i, top, a1)
              ELSE ReadOptimizedInner(m1, i, top, a2)

RECURSIVE ReadOptimizedOuter(_, _, _)
\* ReadOptimizedBubbleSortAlgorithm.sort: while top > lo
ReadOptimizedOuter(m, top, lo) ==
    IF ~Running(m) \/ ~(top > lo) THEN m
    ELSE LET a1 == At(m.array, lo)
             m1 == ReadStep(m, lo)
         IN ReadOptimizedOuter(ReadOptimizedInner(m1, lo, top, a1), top - 1, lo)

\* ReadOptimizedBubbleSortAlgorithm(array).sort(lo=lo, hi=hi)
ReadOptimizedBubbleSortAlgorithm(array, lo, hi) ==
    Complete(ReadOptimizedOuter(Start(array), hi - 1, lo))

RECURSIVE InsertionInner(_, _, _, _, _)
\* InsertionSortAlgorithm.sort: while ins_pt >= lo
InsertionInner(m, ins_pt, lo, stride, a1) ==
    IF ~Running(m) \/ ~(ins_pt >= lo) THEN m
    ELSE LET a2 == At(m.array, ins_pt)
             m1 == ReadStep(m, ins_pt)
         IN IF a2 <= a1 THEN m1
            ELSE InsertionInner(WriteStep(m1, ins_pt + stride, a2),
                                ins_pt - stride, lo, stride, a1)

RECURSIVE InsertionOuter(_, _, _, _, _)
\* InsertionSortAlgorithm.sort: while idx <= hi.  The value a1 read at idx is
\* used for the comparisons only: the loop body never writes it.
InsertionOuter(m, idx, lo, hi, stride) ==
    IF ~Running(m) \/ ~(idx <= hi) THEN m
    ELSE LET a1 == At(m.array, idx)
             m1 == ReadStep(m, idx)
         IN InsertionOuter(InsertionInner(m1, idx - stride, lo, stride, a1),
                           idx + stride, lo, hi, stride)

\* InsertionSortAlgorithm(array).sort(lo=lo, hi=hi, stride=stride)
InsertionSortAlgorithm(array, lo, hi, stride) ==
    Complete(InsertionOuter(Start(array), lo + stride, lo, hi, stride))

\* MicroThreadedSortAlgorithm.sort: raise NotImplementedError
MicroThreadedSort(m, lo, hi, stride) ==
    IF ~Running(m) THEN m ELSE [m EXCEPT !.status = "NotImplementedError"]

RECURSIVE ShellOffsets(_, _, _, _, _)
\* ShellSortAlgorithm.sort: while idx > 0, iterating super(ShellSortAlgorithm,
\* self).sort(lo=lo + idx, hi=hi, stride=stride); the superclass of
\* ShellSortAlgorithm is MicroThreadedSortAlgorithm
ShellOffsets(m, idx, lo, hi, stride) ==
    IF ~Running(m) \/ ~(idx > 0) THEN m
    ELSE ShellOffsets(MicroThreadedSort(m, lo + (idx - 1), hi, stride),
                      idx - 1, lo, hi, stride)

RECURSIVE ShellStrides(_, _, _, _)
\* ShellSortAlgorithm.sort: while stride > 1
ShellStrides(m, stride, lo, hi) ==
    IF ~Running(m) \/ ~(stride > 1) THEN m
    ELSE LET half == stride \div 2
         IN ShellStrides(ShellOffsets(m, half, lo, hi, half), half, lo, hi)

\* ShellSortAlgorithm(array).sort(lo=lo, hi=hi)
ShellSortAlgorithm(array, lo, hi) ==
    Complete(ShellStrides(Start(array), hi - lo + 1, lo, hi))

RECURSIVE QuickScanLow(_, _, _, _)
\* QuickSortAlgorithm.sort: the first inner loop; the result carries lo_idx and,
\* where the loop ended at its break, a1 (a1 is used only in that case)
QuickScanLow(m, lo_idx, hi_idx, p) ==
    IF ~Running(m) \/ ~(lo_idx < hi_idx) THEN [m |-> m, lo_idx |-> lo_idx, a1 |-> 0]
    ELSE LET a1 == At(m.array, lo_idx)
             m1 == ReadStep(m, lo_idx)
         IN IF ~Running(m1) \/ a1 >= p THEN [m |-> m1, lo_idx |-> lo_idx, a1 |-> a1]
            ELSE QuickScanLow(m1, lo_idx + 1, hi_idx, p)

RECURSIVE QuickScanHigh(_, _, _, _)
\* QuickSortAlgorithm.sort: the second inner loop, which leaves hi_idx as it is;
\* the result carries a2
QuickScanHigh(m, lo_idx, hi_idx, p) ==
    IF ~Running(m) \/ ~(lo_idx < hi_idx) THEN [m |-> m, a2 |-> 0]
    ELSE LET a2 == At(m.array, hi_idx)
             m1 == ReadStep(m, hi_idx)
         IN IF ~Running(m1) \/ a2 <= p THEN [m |-> m1, a2 |-> a2]
            ELSE QuickScanHigh(m1, lo_idx, hi_idx, p)

RECURSIVE QuickPartition(_, _, _, _)
\* QuickSortAlgorithm.sort: while lo_idx < hi_idx (the outer loop)
QuickPartition(m, lo_idx, hi_idx, p) ==
    IF ~Running(m) \/ ~(lo_idx < hi_idx) THEN m
    ELSE LET low == QuickScanLow(m, lo_idx, hi_idx, p)
             high == QuickScanHigh(low.m, low.lo_idx, hi_idx, p)
             m3 == IF low.lo_idx < hi_idx
                     THEN WriteStep(WriteStep(high.m, low.lo_idx, high.a2), hi_idx, low.a1)
                     ELSE high.m
         IN QuickPartition(m3, low.lo_idx, hi_idx, p)

\* QuickSortAlgorithm.sort: self.sort(lo=..., hi=..., sub_sort=True) as a
\* statement: calling a generator function builds a generator that is never
\* iterated, so none of its body runs
QuickSubSort(m, lo, hi) == m

\* QuickSortAlgorithm(array).sort(lo=lo, hi=hi): hi_idx is still hi after the loop
QuickSortAlgorithm(array, lo, hi) ==
    LET m0 == Start(array)
        p == At(array, lo)
        m1 == ReadStep(m0, lo)
        m2 == QuickPartition(m1, lo, hi, p)
        m3 == QuickSubSort(m2, lo, hi - 1)
        m4 == QuickSubSort(m3, hi + 1, hi)
    IN Complete(m4)

(***************************************************************************)
(* The sort functions of main.py.  They sort their argument a in place     *)
(* through a[key] and a[key] = value, which SortableArray counts and       *)
(* RenderableArray renders: each such access is one step of the run.       *)
(***************************************************************************)

\* The function returns.
Return(m) == IF Running(m) THEN [m EXCEPT !.status = "returned"] ELSE m

RECURSIVE bubblesort_inner(_, _, _)
\* bubblesort: while i < arraysize
bubblesort_inner(m, i, arraysize) ==
    IF ~Running(m) \/ ~(i < arraysize) THEN m
    ELSE LET k == i + 1
             a1 == At(m.array, k - 1)
             m1 == ReadStep(m, k - 1)
             a2 == At(m1.array, k)
             m2 == ReadStep(m1, k)
             m3 == IF a1 > a2 THEN WriteStep(WriteStep(m2, k - 1, a2), k, a1) ELSE m2
         IN bubblesort_inner(m3, k, arraysize)

RECURSIVE bubblesort_outer(_, _)
\* bubblesort: while arraysize > 1
bubblesort_outer(m, arraysize) ==
    IF ~Running(m) \/ ~(arraysize > 1) THEN m
    ELSE bubblesort_outer(bubblesort_inner(m, 0, arraysize - 1), arraysize - 1)

\* bubblesort(a)
bubblesort(array) == Return(bubblesort_outer(Start(array), Len(array)))

RECURSIVE modified_bubblesort_loop(_, _, _)
\* modified_bubblesort: while i < arraysize
modified_bubblesort_loop(m, i, arraysize) ==
    IF ~Running(m) \/ ~(i < arraysize) THEN m
    ELSE LET a1 == At(m.array, i - 1)
             m1 == ReadStep(m, i - 1)
             a2 == At(m1.array, i)
             m2 == ReadStep(m1, i)
         IN IF a1 > a2
              THEN modified_bubblesort_loop(WriteStep(WriteStep(m2, i - 1, a2), i, a1),
                                            IF i > 1 THEN i - 1 ELSE i + 1, arraysize)
              ELSE modified_bubblesort_loop(m2, i + 1, arraysize)

\* modified_bubblesort(a)
modified_bubblesort(array) == Return(modified_bubblesort_loop(Start(array), 1, Len(array)))

RECURSIVE insertionsort_inner(_, _, _, _, _)
\* insertionsort: while j >= start; the result carries j
insertionsort_inner(m, j, start, stride, x) ==
    IF ~Running(m) \/ ~(j >= start) THEN [m |-> m, j |-> j]
    ELSE LET y == At(m.array, j)
             m1 == ReadStep(m, j)
         IN IF ~Running(m1) \/ y <= x THEN [m |-> m1, j |-> j]
            ELSE insertionsort_inner(WriteStep(m1, j + stride, y), j - stride, start, stride, x)

RECURSIVE insertionsort_outer(_, _, _, _)
\* insertionsort: while i < len(a)
insertionsort_outer(m, i, stride, start) ==
    IF ~Running(m) \/ ~(i < Len(m.array)) THEN m
    ELSE LET x == At(m.array, i)
             m1 == ReadStep(m, i)
             shifted == insertionsort_inner(m1, i - stride, start, stride, x)
         IN insertionsort_outer(WriteStep(shifted.m, shifted.j + stride, x),
                                i + stride, stride, start)

\* Mutant of insertionsort_call: the call returns without touching the array.
insertionsort_skipped(m, stride, start) == m

\* insertionsort(a, stride, start), as a step of a longer run
insertionsort_call(m, stride, start) == insertionsort_outer(m, start + stride, stride, start)

\* insertionsort(a)
insertionsort(array) == Return(insertionsort_call(Start(array), 1, 0))

RECURSIVE shellsort_offsets(_, _, _)
\* shellsort: while i < s
shellsort_offsets(m, i, s) ==
    IF ~Running(m) \/ ~(i < s) THEN m
    ELSE shellsort_offsets(insertionsort_call(m, s, i), i + 1, s)

RECURSIVE shellsort_strides(_, _)
\* shellsort: while s > 1
shellsort_strides(m, s) ==
    IF ~Running(m) \/ ~(s > 1) THEN m
    ELSE shellsort_strides(shellsort_offsets(m, 0, s \div 2), s \div 2)

\* shellsort(a)
shellsort(array) == Return(shellsort_strides(Start(array), Len(array)))

\* (value >> bit) & 1
BitOf(value, bit) == (value \div (2 ^ bit)) % 2

RECURSIVE radix_bits(_, _, _)
\* binary_radixsort_lsb: while max_bit < arraysize; the result is bits
radix_bits(max_bit, bits, arraysize) ==
    IF ~(max_bit < arraysize) THEN bits
    ELSE radix_bits(max_bit * 2, bits + 1, arraysize)

RECURSIVE radix_buckets_forward(_, _, _, _, _)
\* Mutant of radix_buckets: the indices are linked in ascending order, so each
\* list comes out reversed.
radix_buckets_forward(m, first, next, i, bit) ==
    IF ~Running(m) \/ ~(i > 0) THEN [m |-> m, first |-> first, next |-> next]
    ELSE LET k == Len(next) - i
             b == BitOf(At(m.array, k), bit)
             m1 == ReadStep(m, k)
         IN radix_buckets_forward(m1, [first EXCEPT ![b + 1] = k],
                                  [next EXCEPT ![k + 1] = first[b + 1]], i - 1, bit)

RECURSIVE radix_buckets(_, _, _, _, _)
\* binary_radixsort_lsb: the first while i > 0, which reads a[i] and links i
\* at the head of the list of its bit value; first and next are indexed from 1
radix_buckets(m, first, next, i, bit) ==
    IF ~Running(m) \/ ~(i > 0) THEN [m |-> m, first |-> first, next |-> next]
    ELSE LET k == i - 1
             b == BitOf(At(m.array, k), bit)
             m1 == ReadStep(m, k)
         IN radix_buckets(m1, [first EXCEPT ![b + 1] = k],
                          [next EXCEPT ![k + 1] = first[b + 1]], k, bit)

RECURSIVE radix_number(_, _, _)
\* binary_radixsort_lsb: while j is not None, which replaces each link by the
\* destination index of its element; the result carries next and i
radix_number(next, j, i) ==
    IF j = None THEN [next |-> next, i |-> i]
    ELSE radix_number([next EXCEPT ![j + 1] = i], next[j + 1], i + 1)

RECURSIVE radix_cycle(_, _, _, _, _)
\* binary_radixsort_lsb: while j != i, followed by a[j], next[j] = jval, j
radix_cycle(m, next, jval, j, i) ==
    IF ~Running(m) THEN [m |-> m, next |-> next]
    ELSE IF j # i
      THEN LET aj == At(m.array, j)
               m1 == ReadStep(m, j)
               m2 == WriteStep(m1, j, jval)
           IN radix_cycle(m2, [next EXCEPT ![j + 1] = j], aj, next[j + 1], i)
      ELSE [m |-> WriteStep(m, j, jval), next |-> [next EXCEPT ![j + 1] = j]]

RECURSIVE radix_permute(_, _, _)
\* binary_radixsort_lsb: the second while i > 0
radix_permute(m, next, i) ==
    IF ~Running(m) \/ ~(i > 0) THEN m
    ELSE LET k == i - 1
             j == next[k + 1]
         IN IF j # k
              THEN LET jval == At(m.array, k)
                       m1 == ReadStep(m, k)
                       moved == radix_cycle(m1, next, jval, j, k)
                   IN radix_permute(moved.m, moved.next, k)
              ELSE radix_permute(m, next, k)

RECURSIVE radix_passes(_, _, _, _)
\* binary_radixsort_lsb: for bit in range(bits)
radix_passes(m, bit, bits, arraysize) ==
    IF ~Running(m) \/ ~(bit < bits) THEN m
    ELSE LET linked == radix_buckets(m, <<None, None>>, [k \in 1..arraysize |-> None],
                                     arraysize, bit)
             zeros == radix_number(linked.next, linked.first[1], 0)
             ones == radix_number(zeros.next, linked.first[2], zeros.i)
         IN IF ~Running(linked.m) THEN linked.m
            ELSE radix_passes(radix_permute(linked.m, ones.next, ones.i),
                              bit + 1, bits, arraysize)

\* binary_radixsort_lsb(a)
binary_radixsort_lsb(array) ==
    Return(radix_passes(Start(array), 0, radix_bits(1, 0, Len(array)), Len(array)))

RECURSIVE quicksort_low(_, _, _, _)
\* quicksort: the first while i < j; the result carries i and, at its break, ai
quicksort_low(m, i, j, pivot) ==
    IF ~Running(m) \/ ~(i < j) THEN [m |-> m, i |-> i, ai |-> 0]
    ELSE LET ai == At(m.array, i)
             m1 == ReadStep(m, i)
         IN IF ~Running(m1) \/ ai >= pivot THEN [m |-> m1, i |-> i, ai |-> ai]
            ELSE quicksort_low(m1, i + 1, j, pivot)

RECURSIVE quicksort_high(_, _, _, _)
\* quicksort: the second while i < j; the result carries j and, at its break, aj
quicksort_high(m, i, j, pivot) ==
    IF ~Running(m) \/ ~(i < j) THEN [m |-> m, j |-> j, aj |-> 0]
    ELSE LET aj == At(m.array, j)
             m1 == ReadStep(m, j)
         IN IF ~Running(m1) \/ aj <= pivot THEN [m |-> m1, j |-> j, aj |-> aj]
            ELSE quicksort_high(m1, i, j - 1, pivot)

RECURSIVE quicksort_partition(_, _, _, _)
\* quicksort: while True, left by raise EndOfPartition(j); the result carries
\* that j as p
quicksort_partition(m, i, j, pivot) ==
    IF ~Running(m) THEN [m |-> m, p |-> j]
    ELSE LET low == quicksort_low(m, i, j, pivot)
             high == quicksort_high(low.m, low.i, j, pivot)
         IN IF ~Running(high.m) \/ low.i >= high.j THEN [m |-> high.m, p |-> high.j]
            ELSE quicksort_partition(
                     WriteStep(WriteStep(high.m, low.i, high.aj), high.j, low.ai),
                     low.i, high.j, pivot)

RECURSIVE quicksort_call(_, _, _)
\* quicksort(a, lo, hi), as a step of a longer run
quicksort_call(m, lo, hi) ==
    IF ~Running(m) \/ ~(lo < hi) THEN m
    ELSE LET pivot == At(m.array, lo)
             m1 == ReadStep(m, lo)
             part == quicksort_partition(m1, lo, hi, pivot)
         IN quicksort_call(quicksort_call(part.m, lo, part.p - 1), part.p + 1, hi)

\* quicksort(a)
quicksort(array) == Return(quicksort_call(Start(array), 0, Len(array) - 1))

(***************************************************************************)
(* SortSpec: one sort is run on one list.  The list, the sort and, for the *)
(* classes of sorters.py, the lo and hi passed to sort() are chosen        *)
(* initially; the algorithm object has been constructed on the list.  A    *)
(* step iterates the generator returned by sort() until it is exhausted    *)
(* or raises, or calls the function of main.py on the array.               *)
(***************************************************************************)

\* The classes of sorters.py that define sort, and the methods of main().
StepAlgorithms == {"BubbleSortAlgorithm", "ReadOptimizedBubbleSortAlgorithm",
                   "InsertionSortAlgorithm", "ShellSortAlgorithm", "QuickSortAlgorithm"}
SortFunctions == {"bubblesort", "modified_bubblesort", "insertionsort", "shellsort",
                  "binary_radixsort_lsb", "quicksort"}

\* The list of the bubble sort scenario.
Scenario == <<5, 3, 4, 1, 2>>

\* The lists a sort is given: every list of at most MaxLen values of 0..MaxValue
\* (empty, single, sorted, reversed, with duplicates), and the scenario.
Inputs == UNION {[1..n -> 0..MaxValue] : n \in 0..MaxLen} \cup {Scenario}

\* lo = kwargs.pop('lo', 0); hi = kwargs.pop('hi', len(self.array) - 1)
DefaultBounds(array) == [lo |-> 0, hi |-> Len(array) - 1]

\* The lo and hi a caller passes: the defaults or any two indices of the list.
Bounds(array) == {DefaultBounds(array)} \cup
                 {[lo |-> lo, hi |-> hi] : lo \in 0..(Len(array) - 1), hi \in 0..(Len(array) - 1)}

\* MicroThreadedSortAlgorithm.__init__: self.array = array[:]; sort not yet called
Created(array) == [Start(array) EXCEPT !.status = "created"]

\* list(algorithm(array).sort(lo=lo, hi=hi))
RunOf(name, array, lo, hi) ==
    CASE name = "BubbleSortAlgorithm" -> BubbleSortAlgorithm(array, lo, hi)
      [] name = "ReadOptimizedBubbleSortAlgorithm" -> ReadOptimizedBubbleSortAlgorithm(array, lo, hi)
      [] name = "InsertionSortAlgorithm" -> InsertionSortAlgorithm(array, lo, hi, 1)
      [] name = "ShellSortAlgorithm" -> ShellSortAlgorithm(array, lo, hi)
      [] name = "QuickSortAlgorithm" -> QuickSortAlgorithm(array, lo, hi)

\* method(renderable_array)
CallOf(name, array) ==
    CASE name = "bubblesort" -> bubblesort(array)
      [] name = "modified_bubblesort" -> modified_bubblesort(array)
      [] name = "insertionsort" -> insertionsort(array)
      [] name = "shellsort" -> shellsort(array)
      [] name = "binary_radixsort_lsb" -> binary_radixsort_lsb(array)
      [] name = "quicksort" -> quicksort(array)

SortInit ==
    /\ SynchronizerInit
    /\ phase = [t \in Threads |-> "free"]
    /\ accesses = [t \in Threads |-> 0]
    /\ startup_lock = NoThread
    /\ mainpc = "none"
    /\ ArrayIdle
    /\ algorithm \in StepAlgorithms \cup SortFunctions
    /\ given \in Inputs
    /\ kwargs \in (IF algorithm \in StepAlgorithms THEN Bounds(given) ELSE {DefaultBounds(given)})
    /\ outcome = Created(given)

\* The generator of sort() is iterated to its end.
RunSort ==
    /\ algorithm \in StepAlgorithms
    /\ outcome.status = "created"
    /\ outcome' = RunOf(algorithm, outcome.array, kwargs.lo, kwargs.hi)
    /\ UNCHANGED <<algorithm, given, kwargs>>
    /\ UNCHANGED <<phase, accesses, startup_lock, mainpc, arrayVars>>
    /\ UNCHANGED syncVars

\* run_sorting_method: method(renderable_array)
CallSort ==
    /\ algorithm \in SortFunctions
    /\ outcome.status = "created"
    /\ outcome' = CallOf(algorithm, outcome.array)
    /\ UNCHANGED <<algorithm, given, kwargs>>
    /\ UNCHANGED <<phase, accesses, startup_lock, mainpc, arrayVars>>
    /\ UNCHANGED syncVars

SortNext == RunSort \/ CallSort

SortSpec == SortInit /\ [][SortNext]_vars

\* The run is over: the generator is exhausted, the function has returned, an
\* exception has ended the run, or the run does not end.
Ended == outcome.status # "created"

\* The whole list is sorted: sort() is called with the default lo and hi.
WholeList == kwargs = DefaultBounds(given)

IsSorted(array) == \A i \in 1..(Len(array) - 1) : array[i] <= array[i + 1]

Count(array, value) == Cardinality({i \in 1..Len(array) : array[i] = value})

IsPermutation(array, other) ==
    /\ Len(array) = Len(other)
    /\ \A i \in 1..Len(array) : Count(array, array[i]) = Count(other, array[i])

\* The number of steps of one kind in a step sequence.
Steps(ops, kind) == Cardinality({i \in 1..Len(ops) : ops[i].op = kind})

\* The steps are the steps of a finished run: one SortComplete, and it is the last.
EndsWithComplete(ops) ==
    /\ Steps(ops, "complete") = 1
    /\ ops[Len(ops)].op = "complete"

\* C13: for each of the six algorithms, in sorters.py and in main.py, and every
\* list, the run ends (SortComplete is yielded, the function returns) and the
\* final array is the given list in non-decreasing order.
C13_SortsEveryInput ==
    (Ended /\ WholeList) =>
        /\ outcome.status \in {"complete", "returned"}
        /\ IsSorted(outcome.array)
        /\ IsPermutation(outcome.array, given)

\* C13's case: BubbleSortAlgorithm on [1, 0] yields SortComplete with [1, 0].
C13_Scenario ==
    /\ algorithm = "BubbleSortAlgorithm"
    /\ given = <<1, 0>>
    /\ WholeList
    /\ outcome.status = "complete"
    /\ outcome.array = <<1, 0>>

\* C14: for every class of sorters.py and every list, the steps of sort()
\* contain exactly one SortComplete and it is the last step (the generator is
\* exhausted after it).
C14_OneCompleteLast ==
    (Ended /\ WholeList /\ algorithm \in StepAlgorithms) =>
        /\ outcome.status = "complete"
        /\ EndsWithComplete(outcome.ops)

\* C14's case: ShellSortAlgorithm on [1, 0] raises NotImplementedError at the
\* first step; no SortComplete is ever yielded.
C14_Scenario ==
    /\ algorithm = "ShellSortAlgorithm"
    /\ given = <<1, 0>>
    /\ WholeList
    /\ outcome.status = "NotImplementedError"
    /\ outcome.ops = <<>>

\* C17: sort() called with lo > hi on a class of sorters.py fails with
\* InvalidBounds, with no ReadOperation, no WriteOperation and no SortComplete.
C17_InvalidBoundsRejected ==
    (Ended /\ algorithm \in StepAlgorithms /\ given # <<>> /\ kwargs.lo > kwargs.hi) =>
        /\ outcome.status = "InvalidBounds"
        /\ outcome.ops = <<>>

\* C17's case: BubbleSortAlgorithm([1, 0]).sort(lo=1, hi=0) yields SortComplete
\* and ends normally.
C17_Scenario ==
    /\ algorithm = "BubbleSortAlgorithm"
    /\ given = <<1, 0>>
    /\ kwargs = [lo |-> 1, hi |-> 0]
    /\ outcome.status = "complete"
    /\ outcome.ops = <<[op |-> "complete", array |-> <<1, 0>>]>>

\* C18: the steps of BubbleSortAlgorithm on [5, 3, 4, 1, 2] end with a
\* SortComplete that carries [1, 2, 3, 4, 5], and at least 4 of the steps are
\* WriteOperations.
C18_BubbleScenario ==
    (Ended /\ WholeList /\ algorithm = "BubbleSortAlgorithm" /\ given = Scenario) =>
        /\ EndsWithComplete(outcome.ops)
        /\ outcome.ops[Len(outcome.ops)].array = <<1, 2, 3, 4, 5>>
        /\ Steps(outcome.ops, "write") >= 4

\* C18's case: the scenario has been run; it took 8 exchanges, 16 WriteOperations.
C18_Witness ==
    /\ algorithm = "BubbleSortAlgorithm"
    /\ given = Scenario
    /\ WholeList
    /\ outcome.status = "complete"
    /\ Steps(outcome.ops, "write") = 16
    /\ Steps(outcome.ops, "read") = 18

\* op.array read by whoever holds the step op of the run m.  WriteOperation and
\* SortComplete keep the list they are given (self.array = array), and the
\* sorts give them self.array, the list they go on writing to: the attribute
\* shows the contents that list has now.  (The array recorded in a step of
\* ops is what the attribute shows when the step is yielded.)
HeldArray(m, op) == m.array

\* C21: every WriteOperation carries the full contents of the array at the
\* instant of its write, with the written value at the written index, and
\* what an emitted WriteOperation or SortComplete carries is not changed by
\* the writes the run performs afterwards.
C21_SnapshotKept ==
    (Ended /\ algorithm \in StepAlgorithms) =>
        \A i \in 1..Len(outcome.ops) :
            LET step == outcome.ops[i]
            IN /\ step.op = "write" =>
                     /\ Len(step.array) = Len(given)
                     /\ At(step.array, step.index) = step.value
               /\ step.op \in {"write", "complete"} =>
                     HeldArray(outcome, step) = step.array

\* C21's case: BubbleSortAlgorithm on [0, 2, 1] exchanges the last two
\* elements; the first WriteOperation of the exchange was yielded with
\* [0, 1, 1], and the list it holds has become [0, 1, 2] by the second write.
C21_Scenario ==
    /\ algorithm = "BubbleSortAlgorithm"
    /\ given = <<0, 2, 1>>
    /\ WholeList
    /\ outcome.status = "complete"
    /\ outcome.ops[5] = [op |-> "write", index |-> 1, value |-> 1, array |-> <<0, 1, 1>>]
    /\ HeldArray(outcome, outcome.ops[5]) = <<0, 1, 2>>

\* isinstance(step, WriteOperation)
IsWrite(step) == step.op = "write"

\* The WriteOperation steps of a run, in the order they were yielded.
WriteSteps(ops) == SelectSeq(ops, IsWrite)

\* C24: read-optimized bubble sort against bubble sort.  For every input and
\* every lo and hi, the run of ReadOptimizedBubbleSortAlgorithm yields the same
\* WriteOperation steps in the same order as that of BubbleSortAlgorithm, ends
\* in the same way with the same array, and yields no more ReadOperation steps.
C24_SameWritesFewerReads ==
    (Ended /\ algorithm = "ReadOptimizedBubbleSortAlgorithm") =>
        LET plain == BubbleSortAlgorithm(given, kwargs.lo, kwargs.hi)
        IN /\ WriteSteps(outcome.ops) = WriteSteps(plain.ops)
           /\ outcome.array = plain.array
           /\ outcome.status = plain.status
           /\ Steps(outcome.ops, "read") <= Steps(plain.ops, "read")

\* C24's case: on [5, 3, 4, 1, 2] both runs make eight exchanges in three
\* passes; the read-optimized run reads 12 times, the plain one 18 times.
C24_Scenario ==
    /\ Ended /\ algorithm = "ReadOptimizedBubbleSortAlgorithm"
    /\ given = Scenario /\ WholeList
    /\ Steps(outcome.ops, "write") = 16
    /\ Steps(outcome.ops, "read") = 12
    /\ Steps(BubbleSortAlgorithm(given, kwargs.lo, kwargs.hi).ops, "read") = 18
    /\ outcome.array = <<1, 2, 3, 4, 5>>

\* C25: insertion sort places the element it picked up.  When a run of
\* InsertionSortAlgorithm or a call of insertionsort has ended, the array is a
\* permutation of the input: no value is lost or duplicated by the shifts.
C25_InsertionPlaces ==
    (Ended /\ algorithm \in {"InsertionSortAlgorithm", "insertionsort"}) =>
        IsPermutation(outcome.array, given)

\* C25's case: InsertionSortAlgorithm on [1, 0] reads 0 at index 1, shifts the
\* 1 onto it and completes without ever writing the 0.
C25_Scenario ==
    /\ algorithm = "InsertionSortAlgorithm" /\ given = <<1, 0>> /\ WholeList
    /\ outcome.status = "complete"
    /\ WriteSteps(outcome.ops) = <<[op |-> "write", index |-> 1, value |-> 1, array |-> <<1, 1>>]>>
    /\ outcome.array = <<1, 1>>

\* C26: shell sort delegation.  For every input of length >= 2 the run of
\* ShellSortAlgorithm completes with exactly one SortComplete, yielded last,
\* after forwarding the read and write steps of the insertion sort passes;
\* where the only stride is 1 (length 2 or 3) these are the steps of one
\* InsertionSortAlgorithm run over [lo, hi].
C26_ShellDelegates ==
    (Ended /\ algorithm = "ShellSortAlgorithm" /\ WholeList /\ Len(given) >= 2) =>
        /\ outcome.status = "complete"
        /\ EndsWithComplete(outcome.ops)
        /\ Steps(outcome.ops, "complete") = 1
        /\ Len(given) <= 3 =>
              outcome.ops = InsertionSortAlgorithm(given, kwargs.lo, kwargs.hi, 1).ops

\* C26's case: ShellSortAlgorithm on [1, 0] reaches the first delegated pass
\* (stride 1, offset 0) and ends there with NotImplementedError, no step yielded.
C26_Scenario ==
    /\ algorithm = "ShellSortAlgorithm" /\ given = <<1, 0>> /\ WholeList
    /\ outcome.status = "NotImplementedError"
    /\ outcome.ops = <<>>
    /\ outcome.array = given

\* C27: quick sort recursion.  A run of QuickSortAlgorithm that yields its
\* SortComplete has by then sorted both partitions left by the partition loop,
\* so the array of the completed run is sorted over [lo, hi].
C27_PartitionsSorted ==
    (Ended /\ algorithm = "QuickSortAlgorithm" /\ WholeList /\ outcome.status = "complete") =>
        IsSorted(outcome.array)

\* C27's case: on [2, 0, 1] the partition loop exchanges 2 and 1, scans up to
\* the pivot at index 2, and SortComplete follows at once: the low partition
\* [1, 0] gets no step.
C27_Scenario ==
    /\ algorithm = "QuickSortAlgorithm" /\ given = <<2, 0, 1>> /\ WholeList
    /\ outcome.status = "complete"
    /\ Len(outcome.ops) = 8
    /\ WriteSteps(outcome.ops) = <<[op |-> "write", index |-> 0, value |-> 1, array |-> <<1, 0, 1>>],
                                   [op |-> "write", index |-> 2, value |-> 2, array |-> <<1, 0, 2>>]>>
    /\ outcome.ops[7] = [op |-> "read", index |-> 1]
    /\ outcome.ops[8].op = "complete"
    /\ outcome.array = <<1, 0, 2>>

\* C28: quick sort terminates.  On every input list, duplicates included, a
\* run of QuickSortAlgorithm and a call of quicksort end after finitely many
\* array accesses: none is still going after MaxOps steps.
C28_QuickSortTerminates ==
    (Ended /\ algorithm \in {"QuickSortAlgorithm", "quicksort"}) =>
        outcome.status # "diverged"

\* C28's case: QuickSortAlgorithm on [0, 1] reads the pivot and index 0, then
\* reads index 1 over and over: the high scan index is never lowered.
C28_Scenario ==
    /\ algorithm = "QuickSortAlgorithm" /\ given = <<0, 1>> /\ WholeList
    /\ outcome.status = "diverged"
    /\ Len(outcome.ops) > MaxOps
    /\ \A i \in 3..Len(outcome.ops) : outcome.ops[i] = [op |-> "read", index |-> 1]
    /\ outcome.array = given

\* The array as binary_radixsort_lsb leaves it after the passes for bits
\* 0..count-1 (for bit in range(count)).
AfterPasses(array, count) == radix_passes(Start(array), 0, count, Len(array)).array

\* after is before, stably partitioned by the given bit: the elements whose bit
\* is 0, in their order, followed by those whose bit is 1, in their order.
StablePartition(before, after, bit) ==
    after = SelectSeq(before, LAMBDA v : BitOf(v, bit) = 0)
            \o SelectSeq(before, LAMBDA v : BitOf(v, bit) = 1)

\* C29: radix sort pass.  For a list whose values are all below 2^bits, every
\* pass of binary_radixsort_lsb leaves a permutation of the array it found,
\* stably partitioned by the bit of the pass, the writes being made to the
\* array itself; after the last pass the array is sorted.
C29_StablePasses ==
    LET bits == radix_bits(1, 0, Len(given))
    IN (Ended /\ algorithm = "binary_radixsort_lsb"
          /\ \A i \in 1..Len(given) : given[i] < 2 ^ bits) =>
           /\ \A bit \in 0..(bits - 1) :
                 LET before == AfterPasses(given, bit)
                     after == AfterPasses(given, bit + 1)
                 IN /\ IsPermutation(after, before)
                    /\ StablePartition(before, after, bit)
           /\ outcome.status = "returned"
           /\ outcome.array = AfterPasses(given, bits)
           /\ IsSorted(outcome.array)
           /\ IsPermutation(outcome.array, given)

\* C29's case: [5, 3, 4, 1, 2] takes three passes: [4, 2, 5, 3, 1] after bit 0,
\* [4, 5, 1, 2, 3] after bit 1 and [1, 2, 3, 4, 5] after bit 2.
C29_Scenario ==
    /\ Ended /\ algorithm = "binary_radixsort_lsb" /\ given = Scenario
    /\ radix_bits(1, 0, Len(given)) = 3
    /\ AfterPasses(given, 1) = <<4, 2, 5, 3, 1>>
    /\ AfterPasses(given, 2) = <<4, 5, 1, 2, 3>>
    /\ outcome.array = <<1, 2, 3, 4, 5>>
    /\ Steps(outcome.ops, "write") > 0

\* The bucket-assignment phase of the pass for the given bit, run on its own
\* from the array the pass finds: first = [None, None], next = [None] * arraysize.
BucketPhase(array, bit) ==
    radix_buckets(Start(array), <<None, None>>, [k \in 1..Len(array) |-> None],
                  Len(array), bit)

\* C30: radix sort steps.  In every pass of binary_radixsort_lsb the
\* bucket-assignment phase makes no counted array access, so it produces no
\* read or write step; a call in which no pass moves an element produces no
\* step at all.
C30_BucketsUncounted ==
    (Ended /\ algorithm = "binary_radixsort_lsb") =>
        /\ \A bit \in 0..(radix_bits(1, 0, Len(given)) - 1) :
              BucketPhase(AfterPasses(given, bit), bit).m.ops = <<>>
        /\ Steps(outcome.ops, "write") = 0 => outcome.ops = <<>>

\* C30's case: on [0, 1] the single pass moves nothing, and its bucket phase
\* has read a[1] and a[0] through the array object: two counted reads.
C30_Scenario ==
    /\ Ended /\ algorithm = "binary_radixsort_lsb" /\ given = <<0, 1>>
    /\ outcome.status = "returned"
    /\ outcome.ops = <<[op |-> "read", index |-> 1], [op |-> "read", index |-> 0]>>
    /\ BucketPhase(given, 0).m.ops = outcome.ops
    /\ outcome.array = given

(***************************************************************************)
(* ArraySpec: the array objects.  main() builds one initial list and hands *)
(* it to every run; each run builds its own array object from it, a        *)
(* SortableArray or RenderableArray (run_sorting_method) or an algorithm   *)
(* of sorters.py, and then accesses it.  Lists are objects on a heap, so   *)
(* that two names for one list and two equal lists differ.  An array       *)
(* object is used by the one thread that built it, so a call on it is one  *)
(* step.  RenderableArray's accessors make the same access and the same    *)
(* count as SortableArray's and then call the renderer, which reads the    *)
(* list and the count.                                                     *)
(***************************************************************************)

\* random_list = list(range(arraysize)); random.shuffle(random_list)
ShuffledRange(n) == {f \in [1..n -> 0..(n - 1)] : \A i \in 1..n : \A j \in 1..n : f[i] = f[j] => i = j}

ArrayInputs == UNION {ShuffledRange(n) : n \in 0..MaxArrayLen}

\* The identity of the list a run builds: a new object, distinct for each run.
RunList == [t \in Threads |-> CASE t = "A" -> 1 [] t = "B" -> 2 [] t = "C" -> 3]

\* Mutant of NewListOf: the array object keeps the list it is given.
SameListOf(t) == InitialList

\* list(iterable) and array[:] build a new list
NewListOf(t) == RunList[t]

\* The contents of the list held by the array object of run t.
Contents(t) == heap[ary[t]]

\* The keys and values of the calls: every index of the list, one position
\* beyond each end, and the values of the list.
Keys(t) == IF ary[t] = NoList THEN {} ELSE (0 - Len(Contents(t)) - 1)..Len(Contents(t))
Values(t) == IF ary[t] = NoList THEN {} ELSE 0..(Len(Contents(t)) - 1)

ArrayInit ==
    /\ SynchronizerInit
    /\ phase = [t \in Threads |-> "unbuilt"]
    /\ accesses = [t \in Threads |-> 0]
    /\ startup_lock = NoThread
    /\ mainpc = "none"
    /\ SortIdle
    /\ heap \in [{InitialList} -> ArrayInputs]
    /\ ary = [t \in Threads |-> NoList]
    /\ readcount = [t \in Threads |-> 0]
    /\ writecount = [t \in Threads |-> 0]
    /\ gets = [t \in Threads |-> 0]
    /\ sets = [t \in Threads |-> 0]
    /\ last = [run |-> NoThread, call |-> "none", key |-> 0, result |-> "none", value |-> None]

\* self.ary = list(iterable) / self.array = array[:], on the initial list
BuildList(t) ==
    /\ ary' = [ary EXCEPT ![t] = NewListOf(t)]
    /\ heap' = [l \in DOMAIN heap \cup {NewListOf(t)} |->
                  IF l = NewListOf(t) THEN heap[InitialList] ELSE heap[l]]

\* SortableArray.__init__ (kind "sortable"), and RenderableArray.__init__
\* (kind "renderable"), which calls it and renders the new list
ConstructArray(t, kind) ==
    /\ phase[t] = "unbuilt"
    /\ phase' = [phase EXCEPT ![t] = kind]
    /\ BuildList(t)
    /\ readcount' = [readcount EXCEPT ![t] = 0]
    /\ writecount' = [writecount EXCEPT ![t] = 0]
    /\ UNCHANGED <<gets, sets, last, accesses, startup_lock, mainpc, sortVars>>
    /\ UNCHANGED syncVars

\* MicroThreadedSortAlgorithm.__init__
ConstructAlgorithm(t) ==
    /\ phase[t] = "unbuilt"
    /\ phase' = [phase EXCEPT ![t] = "algorithm"]
    /\ BuildList(t)
    /\ UNCHANGED <<readcount, writecount, gets, sets, last, accesses, startup_lock, mainpc, sortVars>>
    /\ UNCHANGED syncVars

\* Mutant of GetItem: the read is counted before the list is accessed.
GetItemCountedFirst(t, key) ==
    /\ phase[t] \in {"sortable", "renderable"}
    /\ accesses[t] < MaxAccesses
    /\ accesses' = [accesses EXCEPT ![t] = @ + 1]
    /\ readcount' = [readcount EXCEPT ![t] = @ + 1]
    /\ IF Valid(Contents(t), key)
         THEN /\ gets' = [gets EXCEPT ![t] = @ + 1]
              /\ last' = [run |-> t, call |-> "get", key |-> key,
                          result |-> "value", value |-> At(Contents(t), key)]
         ELSE /\ gets' = gets
              /\ last' = [run |-> t, call |-> "get", key |-> key,
                          result |-> "IndexError", value |-> None]
    /\ UNCHANGED <<heap, ary, writecount, sets, phase, startup_lock, mainpc, sortVars>>
    /\ UNCHANGED syncVars

\* SortableArray.__getitem__ / RenderableArray.__getitem__:
\* value = self.ary.__getitem__(key), which raises IndexError outside
\* -len..len-1; self.readcount += 1; return value
GetItem(t, key) ==
    /\ phase[t] \in {"sortable", "renderable"}
    /\ accesses[t] < MaxAccesses
    /\ accesses' = [accesses EXCEPT ![t] = @ + 1]
    /\ IF Valid(Contents(t), key)
         THEN /\ readcount' = [readcount EXCEPT ![t] = @ + 1]
              /\ gets' = [gets EXCEPT ![t] = @ + 1]
              /\ last' = [run |-> t, call |-> "get", key |-> key,
                          result |-> "value", value |-> At(Contents(t), key)]
         ELSE /\ readcount' = readcount
              /\ gets' = gets
              /\ last' = [run |-> t, call |-> "get", key |-> key,
                          result |-> "IndexError", value |-> None]
    /\ UNCHANGED <<heap, ary, writecount, sets, phase, startup_lock, mainpc, sortVars>>
    /\ UNCHANGED syncVars

\* SortableArray.__setitem__ / RenderableArray.__setitem__:
\* self.ary.__setitem__(key, value); self.writecount += 1
SetItem(t, key, value) ==
    /\ phase[t] \in {"sortable", "renderable"}
    /\ accesses[t] < MaxAccesses
    /\ accesses' = [accesses EXCEPT ![t] = @ + 1]
    /\ IF Valid(Contents(t), key)
         THEN /\ heap' = [heap EXCEPT ![ary[t]][Pos(Contents(t), key)] = value]
              /\ writecount' = [writecount EXCEPT ![t] = @ + 1]
              /\ sets' = [sets EXCEPT ![t] = @ + 1]
              /\ last' = [run |-> t, call |-> "set", key |-> key,
                          result |-> "stored", value |-> value]
         ELSE /\ heap' = heap
              /\ writecount' = writecount
              /\ sets' = sets
              /\ last' = [run |-> t, call |-> "set", key |-> key,
                          result |-> "IndexError", value |-> None]
    /\ UNCHANGED <<ary, readcount, gets, phase, startup_lock, mainpc, sortVars>>
    /\ UNCHANGED syncVars

\* SortableArray.__len__
LenOf(t) ==
    /\ phase[t] \in {"sortable", "renderable"}
    /\ accesses[t] < MaxAccesses
    /\ accesses' = [accesses EXCEPT ![t] = @ + 1]
    /\ last' = [run |-> t, call |-> "len", key |-> 0,
                result |-> "value", value |-> Len(Contents(t))]
    /\ UNCHANGED <<heap, ary, readcount, writecount, gets, sets, phase, startup_lock, mainpc, sortVars>>
    /\ UNCHANGED syncVars

\* A write step of a sort of sorters.py: self.array[idx] = value
AlgorithmWrite(t, key, value) ==
    /\ phase[t] = "algorithm"
    /\ accesses[t] < MaxAccesses
    /\ Valid(Contents(t), key)
    /\ accesses' = [accesses EXCEPT ![t] = @ + 1]
    /\ heap' = [heap EXCEPT ![ary[t]][Pos(Contents(t), key)] = value]
    /\ sets' = [sets EXCEPT ![t] = @ + 1]
    /\ last' = [run |-> t, call |-> "write", key |-> key, result |-> "stored", value |-> value]
    /\ UNCHANGED <<ary, readcount, writecount, gets, phase, startup_lock, mainpc, sortVars>>
    /\ UNCHANGED syncVars

\* ArraySpec: one array object, built by any one thread, and every sequence
\* of at most MaxAccesses calls on it.
ArrayBuild(t, kind) ==
    /\ \A u \in Threads : phase[u] = "unbuilt"
    /\ ConstructArray(t, kind)

ArrayNext ==
    \/ \E t \in Threads : \E kind \in {"sortable", "renderable"} : ArrayBuild(t, kind)
    \/ \E t \in Threads : LenOf(t)
    \/ \E t \in Threads : \E key \in Keys(t) : GetItem(t, key)
    \/ \E t \in Threads : \E key \in Keys(t) : \E value \in Values(t) : SetItem(t, key, value)

ArraySpec == ArrayInit /\ [][ArrayNext]_vars

\* The step is a call of run t on its array object.
CallBy(t) == accesses'[t] = accesses[t] + 1

\* A key of the range [0, length) of the array of run t.
InRange(t, key) == 0 <= key /\ key < Len(Contents(t))

\* C15: counter exactness.  In every state readcount is the number of gets
\* that returned a value and writecount the number of sets that stored one;
\* a get that returns adds one to readcount and changes nothing else of the
\* array object, a set that stores adds one to writecount and changes the
\* addressed element only, and len changes no counter and no element.
C15_CountersExact ==
    /\ [](\A t \in Threads : readcount[t] = gets[t] /\ writecount[t] = sets[t])
    /\ [][\A t \in Threads : CallBy(t) =>
            /\ (last'.call = "get" /\ last'.result = "value") =>
                  /\ readcount' = [readcount EXCEPT ![t] = @ + 1]
                  /\ writecount' = writecount
                  /\ heap' = heap
                  /\ last'.value = At(Contents(t), last'.key)
            /\ (last'.call = "set" /\ last'.result = "stored") =>
                  /\ writecount' = [writecount EXCEPT ![t] = @ + 1]
                  /\ readcount' = readcount
                  /\ heap' = [heap EXCEPT ![ary[t]][Pos(Contents(t), last'.key)] = last'.value]
            /\ last'.call = "len" =>
                  /\ readcount' = readcount
                  /\ writecount' = writecount
                  /\ heap' = heap
                  /\ last'.value = Len(Contents(t))
        ]_vars

\* C15's case: an array of two elements after one get and one set: one read
\* and one write are counted, and the set has changed the list.
C15_Witness ==
    \E t \in Threads :
        /\ phase[t] = "renderable"
        /\ accesses[t] = 2
        /\ readcount[t] = 1 /\ writecount[t] = 1
        /\ heap[InitialList] = <<1, 0>>
        /\ Contents(t) = <<1, 1>>

\* C16: a get or a set with a key outside [0, length), negative keys included,
\* fails with the out-of-range error (IndexError), returns or stores no value
\* and leaves readcount, writecount and the list unchanged.
C16_OutOfRangeFails ==
    [][\A t \in Threads :
         (CallBy(t) /\ last'.call \in {"get", "set"} /\ ~InRange(t, last'.key)) =>
            /\ last'.result = "IndexError"
            /\ readcount' = readcount
            /\ writecount' = writecount
            /\ heap' = heap
      ]_vars

\* C16's case: on an array of two elements, the set a[-1] = 0 has stored 0 in
\* the last element and has been counted as a write.
C16_Scenario ==
    \E t \in Threads :
        /\ phase[t] = "sortable"
        /\ heap[InitialList] = <<0, 1>>
        /\ last = [run |-> t, call |-> "set", key |-> -1, result |-> "stored", value |-> 0]
        /\ Contents(t) = <<0, 0>>
        /\ writecount[t] = 1

(***************************************************************************)
(* IsolationSpec: three runs on the one initial list, as run_sorting_method*)
(* and the classes of sorters.py set them up: A builds a SortableArray, B  *)
(* a RenderableArray and C an algorithm object, in any order, and they     *)
(* write to their arrays in any interleaving, at most MaxAccesses times in *)
(* all.                                                                    *)
(***************************************************************************)

\* The indices of the array of run t.
Indices(t) == IF ary[t] = NoList THEN {} ELSE 0..(Len(Contents(t)) - 1)

\* The number of calls made on all array objects.
TotalAccesses == accesses["A"] + accesses["B"] + accesses["C"]

IsolationNext ==
    \/ ConstructArray("A", "sortable")
    \/ ConstructArray("B", "renderable")
    \/ ConstructAlgorithm("C")
    \/ \E t \in Threads : \E key \in Indices(t) : \E value \in Values(t) :
          TotalAccesses < MaxAccesses /\ SetItem(t, key, value)
    \/ \E t \in Threads : \E key \in Indices(t) : \E value \in Values(t) :
          TotalAccesses < MaxAccesses /\ AlgorithmWrite(t, key, value)

IsolationSpec == ArrayInit /\ [][IsolationNext]_vars

\* C20: run isolation.  The array object of a run holds a list of its own,
\* which is neither the initial list nor the list of another run; no step
\* changes the initial list, and a step changes the array of a run only if it
\* is a write of that run.
C20_RunIsolation ==
    /\ [](\A t \in Threads : ary[t] # NoList =>
             /\ ary[t] # InitialList
             /\ \A u \in Threads \ {t} : ary[u] # ary[t])
    /\ [][/\ heap'[InitialList] = heap[InitialList]
          /\ \A t \in Threads : (ary[t] # NoList /\ sets'[t] = sets[t]) =>
                 heap'[ary[t]] = heap[ary[t]]
        ]_vars

\* C20's case: the three runs have built their arrays from [1, 0]; A and C
\* have each written once; the initial list and the array of B are as before.
C20_Witness ==
    /\ heap[InitialList] = <<1, 0>>
    /\ \A t \in Threads : ary[t] # NoList
    /\ sets = [t \in Threads |-> IF t = "B" THEN 0 ELSE 1]
    /\ Contents("A") = <<0, 0>>
    /\ Contents("B") = <<1, 0>>
    /\ Contents("C") = <<1, 1>>

\* C22: one step per round.  An array access of a run makes exactly one sync
\* call, inside which the access stays until the call returns; the run is
\* pending in the current round when it accesses, its sync call takes it out of
\* in_sync, and it becomes pending again only when a round closes (or when it
\* joins): so a run accesses its array at most once between two round closes.
C22_OneAccessPerRound ==
    [][\A t \in Threads :
         /\ accesses'[t] = accesses[t] + 1 =>
               /\ pc[t] = "idle" /\ pc'[t] = "sync_cs"
               /\ calls'[t] = calls[t] + 1
               /\ t \in synchronizees /\ t \in in_sync
         /\ (pc[t] = "sync_cs" /\ pc'[t] # "sync_cs") => t \notin in_sync'
         /\ (t \notin in_sync /\ t \in in_sync') =>
               (rounds' = rounds + 1 \/ pc[t] = "add_cs")
         /\ accesses'[t] \in {accesses[t], accesses[t] + 1}
      ]_vars

\* C22's case: after the round of the initial renders and the round of the
\* first accesses, A has made its second access and waits in its sync call
\* while B, with one access, is still pending.
C22_Witness ==
    /\ rounds = 2
    /\ accesses["A"] = 2 /\ pc["A"] = "waiting"
    /\ accesses["B"] = 1 /\ pc["B"] = "idle" /\ "B" \in in_sync
    /\ synchronizees = Threads

\* Renderer.render: is_sorted, the reduce of array[idx] == idx over
\* range(len(array))
is_sorted(array) == \A idx \in 0..(Len(array) - 1) : At(array, idx) = idx

\* C31: the sort functions on the input main() builds.  For every n >= 0 and
\* every permutation of 0..n-1, the call of each of the six sort functions of
\* main.py returns, and then a[i] = i at every index i.
C31_ShuffledRangeSorted ==
    (Ended /\ algorithm \in SortFunctions /\ given \in ShuffledRange(Len(given))) =>
        /\ outcome.status = "returned"
        /\ is_sorted(outcome.array)

\* C31's case: quicksort on the permutation [2, 0, 1] returns after 9 reads and
\* 4 writes with [0, 1, 2].
C31_Scenario ==
    /\ Ended /\ algorithm = "quicksort" /\ given = <<2, 0, 1>>
    /\ given \in ShuffledRange(3)
    /\ outcome.status = "returned"
    /\ Steps(outcome.ops, "read") = 9 /\ Steps(outcome.ops, "write") = 4
    /\ outcome.array = <<0, 1, 2>>

\* lo <= hi, both inside the array
InsideBounds == 0 <= kwargs.lo /\ kwargs.lo <= kwargs.hi /\ kwargs.hi < Len(given)

\* C32: range restriction.  For every algorithm of sorters.py run with bounds
\* lo <= hi inside the array, every ReadOperation and WriteOperation index lies
\* in [lo, hi], the elements outside [lo, hi] are in the final array as they
\* were in the input, and the elements at lo..hi of the final array are sorted.
C32_RangeRestriction ==
    (Ended /\ algorithm \in StepAlgorithms /\ InsideBounds) =>
        /\ \A i \in 1..Len(outcome.ops) :
              outcome.ops[i].op \in {"read", "write"} =>
                  (kwargs.lo <= outcome.ops[i].index /\ outcome.ops[i].index <= kwargs.hi)
        /\ \A k \in 0..(Len(given) - 1) :
              (k < kwargs.lo \/ k > kwargs.hi) => At(outcome.array, k) = At(given, k)
        /\ IsSorted(SubSeq(outcome.array, kwargs.lo + 1, kwargs.hi + 1))

\* C32's case: BubbleSortAlgorithm on [0, 2, 1] with lo = 1, hi = 2 yields
\* SortComplete at once and leaves 2 before 1.
C32_Scenario ==
    /\ algorithm = "BubbleSortAlgorithm" /\ given = <<0, 2, 1>>
    /\ kwargs = [lo |-> 1, hi |-> 2] /\ InsideBounds
    /\ outcome.status = "complete"
    /\ Len(outcome.ops) = 1 /\ outcome.ops[1].op = "complete"
    /\ outcome.array = <<0, 2, 1>>

(***************************************************************************)
(* FairMainSpec: MainSpec with a fair scheduler.  main and every runner    *)
(* are threads of their own; a thread that can take a step eventually      *)
(* takes one.  Nothing orders main's notifyAll after the runners' wait:    *)
(* main only sleeps for a second in between.                               *)
(***************************************************************************)

\* The steps of main().
MainThread == MainAcquire \/ MainNotifyAll \/ MainRelease \/ \E t \in Threads : MainStart(t)

\* The steps of the runner thread t.
RunnerThread(t) ==
    \/ StartupAcquire(t)
    \/ StartupWait(t)
    \/ StartupReacquire(t)
    \/ StartupRelease(t)
    \/ RunnerJoin(t)
    \/ RunnerInitialRender(t)
    \/ RunnerAccess(t)
    \/ RunnerRaise(t)
    \/ RunnerReturn(t)
    \/ RunnerDone(t)
    \/ add(t)
    \/ sync_discard(t)
    \/ synchronized(t)
    \/ sync_close(t)
    \/ sync_wake(t)
    \/ sync_release(t)

FairMainSpec ==
    /\ MainInit
    /\ [][MainNext]_vars
    /\ WF_vars(MainThread)
    /\ \A t \in Threads : WF_vars(RunnerThread(t))

\* The runner has passed the gate: it has returned from startup_cond.wait()
\* and released startup_cond, and goes on to its run.
PassedGate(t) ==
    phase[t] \in {"released", "joined", "sorting", "returned", "aborted", "finished"}

\* main has opened the gate: its notifyAll has been made.
GateOpened == mainpc \in {"release", "mainloop"}

\* C19: the start gate.  Every runner eventually passes the gate, whatever the
\* interleaving of its start-up with main's notifyAll; and no runner has
\* joined the synchronizer or accessed its array before the gate was opened.
C19_StartGate ==
    /\ \A t \in Threads : <>PassedGate(t)
    /\ [](\A t \in Threads :
             (t \in synchronizees \/ pc[t] # "idle" \/ accesses[t] > 0) => GateOpened)

\* C19's case: main has made its notifyAll and gone on to the main loop while
\* C had not yet reached startup_cond.wait(); C waits now, and nothing will
\* notify it.  A and B have passed the gate.
C19_Scenario ==
    /\ mainpc = "mainloop"
    /\ phase["C"] = "gate_waiting"
    /\ PassedGate("A") /\ PassedGate("B")

====
